---------------------------- MODULE Spec2Model ----------------------------
(***************************************************************************)
(* Model of hardware_checker.py: the JSON log store (read_log, write_log,  *)
(* append_log), the threshold checks (health_checks), the report formatter *)
(* (format_report), the three operations built on them (run_health_check,  *)
(* view_recent_logs, export_latest_report) and the menu loop.              *)
(*                                                                         *)
(* Numbers that the program holds as floats with a fixed number of         *)
(* decimals (GB values, percentages) are held here in hundredths:          *)
(* 85.0 % is 8500, 84.9 % is 8490, 2.0 GB is 200, 2.1 GB is 210.           *)
(*                                                                         *)
(* A text file is a sequence of JSON tokens; a printed or exported text is *)
(* a sequence of lines, a line a sequence of pieces (literal text and      *)
(* formatted values).                                                      *)
(***************************************************************************)
EXTENDS Integers, Sequences, FiniteSets, TLC

(***************************************************************************)
(* Bounds of the model.                                                    *)
(***************************************************************************)
\* samples taken (calls of collect_system_info) in one behaviour
MaxClock == 2
\* largest limit a caller passes to view_recent_logs
MaxLimit == 3

(***************************************************************************)
(* JSON text: tokens, json.dumps and json.loads.                           *)
(***************************************************************************)
Tok(k, s, n) == [k |-> k, s |-> s, n |-> n]
LBRACK == Tok("[", "", 0)
RBRACK == Tok("]", "", 0)
LBRACE == Tok("{", "", 0)
RBRACE == Tok("}", "", 0)
COMMA == Tok(",", "", 0)
COLON == Tok(":", "", 0)
NULLTOK == Tok("null", "", 0)
StrTok(s) == Tok("str", s, 0)
NumTok(n) == Tok("num", "", n)

RECURSIVE JoinComma(_)
\* the token sequences of parts, separated by commas
JoinComma(parts) ==
    IF parts = <<>> THEN <<>>
    ELSE IF Len(parts) = 1 THEN parts[1]
    ELSE parts[1] \o <<COMMA>> \o JoinComma(Tail(parts))

\* json.dumps of a list whose elements are already dumped
DumpArray(elems) == <<LBRACK>> \o JoinComma(elems) \o <<RBRACK>>

\* json.dumps of a dict given as a sequence of <<key, dumped value>>, in
\* insertion order
DumpObject(members) ==
    <<LBRACE>>
    \o JoinComma([i \in 1..Len(members) |->
                    <<StrTok(members[i][1]), COLON>> \o members[i][2]])
    \o <<RBRACE>>

DumpStr(s) == <<StrTok(s)>>
DumpNum(n) == <<NumTok(n)>>

\* json.dumps of the dict collect_system_info builds (keys in its order)
DumpInfo(i) ==
    DumpObject(<<
        <<"timestamp", DumpStr(i.timestamp)>>,
        <<"os", DumpObject(<< <<"name", DumpStr(i.os.name)>>,
                              <<"version", DumpStr(i.os.version)>>,
                              <<"arch", DumpStr(i.os.arch)>> >>)>>,
        <<"cpu", DumpObject(<< <<"physical_cores", DumpNum(i.cpu.physical_cores)>>,
                               <<"logical_cores", DumpNum(i.cpu.logical_cores)>> >>)>>,
        <<"ram_gb", DumpObject(<< <<"total", DumpNum(i.ram_gb.total)>>,
                                  <<"available", DumpNum(i.ram_gb.available)>>,
                                  <<"percent_used", DumpNum(i.ram_gb.percent_used)>> >>)>>,
        <<"disk_gb", DumpObject(<< <<"path_checked", DumpStr(i.disk_gb.path_checked)>>,
                                   <<"total", DumpNum(i.disk_gb.total)>>,
                                   <<"used", DumpNum(i.disk_gb.used)>>,
                                   <<"free", DumpNum(i.disk_gb.free)>>,
                                   <<"percent_used", DumpNum(i.disk_gb.percent_used)>> >>)>>
    >>)

\* json.dumps of one log entry {"system_info": ..., "warnings": [...]}
DumpEntry(e) ==
    DumpObject(<<
        <<"system_info", DumpInfo(e.system_info)>>,
        <<"warnings", DumpArray([j \in 1..Len(e.warnings) |-> DumpStr(e.warnings[j])])>>
    >>)

\* json.dumps(entries, indent=2): the tokens of the array of entries
dumps(entries) == DumpArray([j \in 1..Len(entries) |-> DumpEntry(entries[j])])

ParseFail == [ok |-> FALSE, kind |-> "", val |-> <<>>, next |-> 0]
Parsed(kind, val, next) == [ok |-> TRUE, kind |-> kind, val |-> val, next |-> next]

\* the dict of a sequence of [key, val] members: a later duplicate key wins
DictOf(members) ==
    [k \in {members[i].key : i \in 1..Len(members)} |->
        members[CHOOSE i \in 1..Len(members) :
                    /\ members[i].key = k
                    /\ \A j \in (i+1)..Len(members) : members[j].key # k].val]

RECURSIVE ParseValue(_, _), ParseElements(_, _, _), ParseMembers(_, _, _)
\* the JSON value that starts at token i of t
ParseValue(t, i) ==
    IF i > Len(t) THEN ParseFail
    ELSE IF t[i].k = "str" THEN Parsed("str", t[i].s, i + 1)
    ELSE IF t[i].k = "num" THEN Parsed("num", t[i].n, i + 1)
    ELSE IF t[i].k = "null" THEN Parsed("null", "None", i + 1)
    ELSE IF t[i].k = "[" THEN
        IF i + 1 <= Len(t) /\ t[i + 1].k = "]"
        THEN Parsed("list", <<>>, i + 2)
        ELSE ParseElements(t, i + 1, <<>>)
    ELSE IF t[i].k = "{" THEN
        IF i + 1 <= Len(t) /\ t[i + 1].k = "}"
        THEN Parsed("dict", DictOf(<<>>), i + 2)
        ELSE ParseMembers(t, i + 1, <<>>)
    ELSE ParseFail

\* the rest of an array whose next element starts at token i
ParseElements(t, i, acc) ==
    LET v == ParseValue(t, i) IN
    IF ~v.ok \/ v.next > Len(t) THEN ParseFail
    ELSE IF t[v.next].k = "," THEN ParseElements(t, v.next + 1, Append(acc, v.val))
    ELSE IF t[v.next].k = "]" THEN Parsed("list", Append(acc, v.val), v.next + 1)
    ELSE ParseFail

\* the rest of an object whose next member starts at token i
ParseMembers(t, i, acc) ==
    IF i + 1 > Len(t) \/ t[i].k # "str" \/ t[i + 1].k # ":" THEN ParseFail
    ELSE
        LET v == ParseValue(t, i + 2)
            m == Append(acc, [key |-> t[i].s, val |-> v.val])
        IN  IF ~v.ok \/ v.next > Len(t) THEN ParseFail
            ELSE IF t[v.next].k = "," THEN ParseMembers(t, v.next + 1, m)
            ELSE IF t[v.next].k = "}" THEN Parsed("dict", DictOf(m), v.next + 1)
            ELSE ParseFail

\* json.loads(text): ok = FALSE stands for json.JSONDecodeError (no value, or
\* extra data after the value)
loads(text) ==
    LET v == ParseValue(text, 1) IN
    IF v.ok /\ v.next = Len(text) + 1 THEN v ELSE ParseFail


(***************************************************************************)
(* State.                                                                  *)
(***************************************************************************)
VARIABLES
    logFile,   \* hardware_log.json: [kind, text], kind is "missing", "text",
               \* "denied" (exists, not readable) or "undecodable" (exists,
               \* bytes that are not UTF-8)
    outFile,   \* latest_report.txt: [exists, text], text a sequence of lines
    console,   \* the lines printed by the most recent call
    call,      \* the most recent call: [op, limit, raised]
    info,      \* run_health_check's local info (the last snapshot sampled)
    warnings,  \* run_health_check's local warnings
    recent,    \* view_recent_logs's local recent
    clock,     \* number of snapshots sampled so far
    hist,      \* the entries appended so far, in append order, after the
               \* initial history (what the log is meant to hold)
    menuPc,    \* menu(): "off", "menu" (top of the loop), "input" (blocked in
               \* input()), "exited" (after break), "crashed" (an exception
               \* left the loop)
    line,      \* the last line input() returned, a sequence of characters
    pc,        \* per process running append_log: "idle", "read", "done", "raised"
    entries    \* per process: append_log's local entries

vars == <<logFile, outFile, console, call, info, warnings, recent, clock, hist,
          menuPc, line, pc, entries>>

Procs == {1, 2}

(***************************************************************************)
(* Snapshots.                                                              *)
(***************************************************************************)
Timestamps == <<"T1", "T2", "T3", "T4", "T5", "T6", "T7", "T8">>

\* what psutil.virtual_memory() may report (total is 16.00 GB)
RamSamples ==
    { [total |-> 1600, available |-> 200, percent_used |-> 8750],
      [total |-> 1600, available |-> 210, percent_used |-> 8690] }

\* what psutil.disk_usage() may report (total is 500.00 GB)
DiskSamples ==
    { [path_checked |-> "/", total |-> 50000, used |-> 42500, free |-> 7500,
       percent_used |-> 8500],
      [path_checked |-> "/", total |-> 50000, used |-> 42450, free |-> 7550,
       percent_used |-> 8490] }

\* the dict collect_system_info returns for a timestamp and the two readings
collect_system_info(ts, ram, disk) ==
    [timestamp |-> ts,
     os |-> [name |-> "Linux", version |-> "#1 SMP", arch |-> "x86_64"],
     cpu |-> [physical_cores |-> 4, logical_cores |-> 8],
     ram_gb |-> ram,
     disk_gb |-> disk]

\* the snapshots a call of collect_system_info can return at clock value c
Snapshots(c) ==
    { collect_system_info(Timestamps[c], ram, disk) :
        ram \in RamSamples, disk \in DiskSamples }

\* value of info before any snapshot was sampled
Unsampled ==
    collect_system_info("",
        [total |-> 0, available |-> 0, percent_used |-> 0],
        [path_checked |-> "", total |-> 0, used |-> 0, free |-> 0,
         percent_used |-> 0])

(***************************************************************************)
(* health_checks.                                                          *)
(***************************************************************************)
\* 85 (percent), in hundredths
DISK_PERCENT_HIGH == 8500
\* 2.0 (GB), in hundredths
RAM_AVAILABLE_LOW == 200

DISK_WARNING == "Disk usage is high (>= 85%). Consider freeing space."
RAM_WARNING == "RAM available is low (<= 2 GB). Close apps or add memory."

\* health_checks with > and < for >= and <=
health_checks_strict(i) ==
    (IF i.disk_gb.percent_used > DISK_PERCENT_HIGH THEN <<DISK_WARNING>> ELSE <<>>)
    \o (IF i.ram_gb.available < RAM_AVAILABLE_LOW THEN <<RAM_WARNING>> ELSE <<>>)

health_checks(i) ==
    (IF i.disk_gb.percent_used >= DISK_PERCENT_HIGH THEN <<DISK_WARNING>> ELSE <<>>)
    \o (IF i.ram_gb.available <= RAM_AVAILABLE_LOW THEN <<RAM_WARNING>> ELSE <<>>)

(***************************************************************************)
(* The log store.                                                          *)
(***************************************************************************)
Returned(v) == [raised |-> "none", value |-> v]
Raised(e) == [raised |-> e, value |-> <<>>]

\* LOG_FILE.read_text(encoding="utf-8")
read_text(file) ==
    IF file.kind = "missing" THEN Raised("FileNotFoundError")
    ELSE IF file.kind = "denied" THEN Raised("PermissionError")
    ELSE IF file.kind = "undecodable" THEN Raised("UnicodeDecodeError")
    ELSE Returned(file.text)

\* read_log from the point where json.loads has returned data or raised
\* JSONDecodeError
ReadLogData(data) ==
    IF ~data.ok THEN Returned(<<>>)
    ELSE IF data.kind = "list" THEN Returned(data.val)
    ELSE Returned(<<>>)

\* read_log from the point where read_text has returned or raised: only
\* json.JSONDecodeError is caught, what read_text raises leaves read_log
ReadLogText(t) ==
    IF t.raised # "none" THEN t ELSE ReadLogData(loads(t.value))

\* read_log without the LOG_FILE.exists() test
read_log_unguarded(file) == ReadLogText(read_text(file))

read_log(file) ==
    IF file.kind = "missing" THEN Returned(<<>>)
    ELSE ReadLogText(read_text(file))

\* write_log that dumps the new entry instead of the list
write_log_entry_only(es) == [kind |-> "text", text |-> DumpEntry(es[Len(es)])]

\* the file LOG_FILE.write_text(json.dumps(entries, indent=2)) leaves
write_log(es) == [kind |-> "text", text |-> dumps(es)]

\* append_log that starts from an empty list instead of the history read
AppendToFresh(file, r, entry) ==
    IF r.raised # "none" THEN [raised |-> r.raised, file |-> file]
    ELSE [raised |-> "none", file |-> write_log(<<entry>>)]

\* append_log from the point where read_log has returned or raised
AppendTo(file, r, entry) ==
    IF r.raised # "none" THEN [raised |-> r.raised, file |-> file]
    ELSE [raised |-> "none", file |-> write_log(Append(r.value, entry))]

\* append_log(entry) on file: the exception it raises, if any, and the file
\* it leaves
append_log(file, entry) == AppendTo(file, read_log(file), entry)

(***************************************************************************)
(* format_report.  A line is a sequence of pieces.                         *)
(***************************************************************************)
Lit(s) == [k |-> "lit", s |-> s, n |-> 0]
StrV(s) == [k |-> "str", s |-> s, n |-> 0]
NumV(n) == [k |-> "num", s |-> "", n |-> n]
BlankLine == <<>>

REPORT_HEADER == <<Lit("=== Hardware Health Report ===")>>
WARNINGS_HEADING == <<Lit("--- Warnings ---")>>
NO_WARNINGS == <<Lit("No warnings. System looks healthy for basic checks.")>>
WarningLine(w) == <<Lit("- "), StrV(w)>>

\* the six lines every report starts with
ReportHead(i) ==
    << REPORT_HEADER,
       <<Lit("Timestamp: "), StrV(i.timestamp)>>,
       <<Lit("OS: "), StrV(i.os.name), Lit(" "), StrV(i.os.version), Lit(" ("),
         StrV(i.os.arch), Lit(")")>>,
       <<Lit("CPU Cores: "), NumV(i.cpu.physical_cores), Lit(" physical / "),
         NumV(i.cpu.logical_cores), Lit(" logical")>>,
       <<Lit("RAM: "), NumV(i.ram_gb.available), Lit(" GB available / "),
         NumV(i.ram_gb.total), Lit(" GB total ("), NumV(i.ram_gb.percent_used),
         Lit("% used)")>>,
       <<Lit("Disk ("), StrV(i.disk_gb.path_checked), Lit("): "),
         NumV(i.disk_gb.free), Lit(" GB free / "), NumV(i.disk_gb.total),
         Lit(" GB total ("), NumV(i.disk_gb.percent_used), Lit("% used)")>> >>

\* the ending with the else branch run after the warnings as well
ReportEndingBoth(ws) ==
    (IF ws # <<>>
     THEN <<BlankLine, WARNINGS_HEADING>> \o [j \in 1..Len(ws) |-> WarningLine(ws[j])]
     ELSE <<>>)
    \o <<BlankLine, NO_WARNINGS>>

\* the lines after the head: if warnings: ... else: ...
ReportEnding(ws) ==
    IF ws # <<>>
    THEN <<BlankLine, WARNINGS_HEADING>> \o [j \in 1..Len(ws) |-> WarningLine(ws[j])]
    ELSE <<BlankLine, NO_WARNINGS>>

\* the lines of the report, which format_report joins with newlines
format_report(i, ws) == ReportHead(i) \o ReportEnding(ws)

(***************************************************************************)
(* view_recent_logs, export_latest_report, run_health_check.               *)
(***************************************************************************)
\* Python's s[start:]: a negative start counts from the end, and both ends
\* are clamped to the sequence
PySliceFrom(s, start) ==
    LET n == Len(s)
        from == IF start < 0
                THEN (IF n + start < 0 THEN 0 ELSE n + start)
                ELSE (IF start > n THEN n ELSE start)
    IN  SubSeq(s, from + 1, n)

\* recent = entries[-limit:]
RecentOf(es, limit) == PySliceFrom(es, 0 - limit)

\* the line view_recent_logs prints for the j-th entry shown
SummaryLine(j, entry) ==
    <<NumV(j), Lit(". "), StrV(entry.system_info.timestamp),
      Lit(" | Disk Used: "), NumV(entry.system_info.disk_gb.percent_used),
      Lit("% | RAM Used: "), NumV(entry.system_info.ram_gb.percent_used),
      Lit("% | Warnings: "), NumV(Len(entry.warnings))>>

NO_ENTRIES == <<BlankLine, <<Lit("No log entries found yet.")>>, BlankLine>>
NO_LOGS == <<BlankLine, <<Lit("No logs found. Run a health check first.")>>, BlankLine>>

view_recent_logs(limit) ==
    \E r \in {read_log(logFile)} :
    /\ call' = [op |-> "view", limit |-> limit, raised |-> r.raised]
    /\ IF r.raised # "none" THEN
            /\ console' = <<>>
            /\ recent' = <<>>
       ELSE IF r.value = <<>> THEN
            /\ console' = NO_ENTRIES
            /\ recent' = <<>>
       ELSE LET rec == RecentOf(r.value, limit) IN
            /\ recent' = rec
            /\ console' =
                 <<BlankLine,
                   <<Lit("=== Showing last "), NumV(Len(rec)), Lit(" log entries ===")>>,
                   BlankLine>>
                 \o [j \in 1..Len(rec) |-> SummaryLine(j, rec[j])]
                 \o <<BlankLine>>
    /\ UNCHANGED <<logFile, outFile, info, warnings, clock, hist>>

\* entries[0] for entries[-1]
OldestOf(es) == es[1]

\* latest = entries[-1]
LatestOf(es) == es[Len(es)]

export_latest_report ==
    \E r \in {read_log(logFile)} :
    /\ call' = [op |-> "export", limit |-> 0, raised |-> r.raised]
    /\ IF r.raised # "none" THEN
            /\ console' = <<>>
            /\ outFile' = outFile
       ELSE IF r.value = <<>> THEN
            /\ console' = NO_LOGS
            /\ outFile' = outFile
       ELSE LET latest == LatestOf(r.value)
                report == format_report(latest.system_info, latest.warnings)
            IN  /\ outFile' = [exists |-> TRUE, text |-> report]
                /\ console' = <<BlankLine,
                                <<Lit("Exported latest report to: "),
                                  StrV("latest_report.txt")>>,
                                BlankLine>>
    /\ UNCHANGED <<logFile, info, warnings, recent, clock, hist>>

run_health_check ==
    /\ clock < MaxClock
    /\ clock' = clock + 1
    /\ \E i \in Snapshots(clock + 1) :
        \E ws \in {health_checks(i)} :
        \E a \in {append_log(logFile, [system_info |-> i, warnings |-> ws])} :
        LET entry == [system_info |-> i, warnings |-> ws]
            report == format_report(i, ws)
        IN  /\ info' = i
            /\ warnings' = ws
            /\ logFile' = a.file
            /\ hist' = IF a.raised = "none" THEN Append(hist, entry) ELSE hist
            /\ console' =
                 <<BlankLine>> \o report \o <<BlankLine>>
                 \o (IF a.raised = "none"
                     THEN << <<Lit("Saved log entry to: "), StrV("hardware_log.json")>>,
                             BlankLine>>
                     ELSE <<>>)
            /\ call' = [op |-> "run", limit |-> 0, raised |-> a.raised]
    /\ UNCHANGED <<outFile, recent>>

(***************************************************************************)
(* Initial states: what the two files may hold when the program starts.    *)
(***************************************************************************)
\* an entry a previous run of the program logged
EarlierEntry ==
    LET i == collect_system_info("T0",
                [total |-> 1600, available |-> 210, percent_used |-> 8690],
                [path_checked |-> "/", total |-> 50000, used |-> 42500,
                 free |-> 7500, percent_used |-> 8500])
    IN  [system_info |-> i, warnings |-> health_checks(i)]

\* the entry logged before it
OlderEntry ==
    LET i == collect_system_info("T-1",
                [total |-> 1600, available |-> 200, percent_used |-> 8750],
                [path_checked |-> "/", total |-> 50000, used |-> 42450,
                 free |-> 7550, percent_used |-> 8490])
    IN  [system_info |-> i, warnings |-> health_checks(i)]

\* texts that are not JSON: an empty file, a cut-off array, extra data
InvalidJsonTexts == { <<>>, <<LBRACK, LBRACE>>, <<LBRACK, RBRACK, RBRACK>> }
\* texts that are JSON but no array
NonArrayTexts == { <<StrTok("not an array")>>, <<LBRACE, RBRACE>>, <<NULLTOK>> }
\* the histories a previous run can have left
InitialHistories == { <<>>, <<EarlierEntry>>, <<OlderEntry, EarlierEntry>> }

InitialLogs ==
    { [file |-> [kind |-> "missing", text |-> <<>>], h |-> <<>>],
      [file |-> [kind |-> "denied", text |-> <<>>], h |-> <<>>],
      [file |-> [kind |-> "undecodable", text |-> <<>>], h |-> <<>>] }
    \cup { [file |-> [kind |-> "text", text |-> t], h |-> <<>>] :
            t \in InvalidJsonTexts \cup NonArrayTexts }
    \cup { [file |-> [kind |-> "text", text |-> dumps(h)], h |-> h] :
            h \in InitialHistories }

StaleReport == << <<Lit("=== Hardware Health Report ===")>>, <<Lit("(an earlier export)")>> >>
InitialOutFiles ==
    { [exists |-> FALSE, text |-> <<>>], [exists |-> TRUE, text |-> StaleReport] }

InitWith(m) ==
    /\ \E l \in InitialLogs : logFile = l.file /\ hist = l.h
    /\ outFile \in InitialOutFiles
    /\ console = <<>>
    /\ call = [op |-> "none", limit |-> 0, raised |-> "none"]
    /\ info = Unsampled
    /\ warnings = <<>>
    /\ recent = <<>>
    /\ clock = 0
    /\ menuPc = m
    /\ line = <<>>
    /\ pc = [p \in Procs |-> "idle"]
    /\ entries = [p \in Procs |-> <<>>]

(***************************************************************************)
(* Spec: the three operations called directly, in any order.               *)
(***************************************************************************)
Init == InitWith("off")

RunHealthCheck ==
    /\ run_health_check
    /\ UNCHANGED <<menuPc, line, pc, entries>>

ViewRecentLogs ==
    /\ \E limit \in 0..MaxLimit : view_recent_logs(limit)
    /\ UNCHANGED <<menuPc, line, pc, entries>>

ExportLatestReport ==
    /\ export_latest_report
    /\ UNCHANGED <<menuPc, line, pc, entries>>

Next == RunHealthCheck \/ ViewRecentLogs \/ ExportLatestReport

Spec == Init /\ [][Next]_vars

(***************************************************************************)
(* SpecMenu: the menu loop, one input line per iteration.                  *)
(***************************************************************************)
\* view_recent_logs's default limit, which the menu uses
DEFAULT_LIMIT == 5

Whitespace == {" ", "\t"}

RECURSIVE lstrip(_)
lstrip(s) == IF s # <<>> /\ s[1] \in Whitespace THEN lstrip(Tail(s)) ELSE s

RECURSIVE rstrip(_)
rstrip(s) ==
    IF s # <<>> /\ s[Len(s)] \in Whitespace THEN rstrip(SubSeq(s, 1, Len(s) - 1)) ELSE s

\* str.strip()
strip(s) == rstrip(lstrip(s))

\* the lines input() may return
InputLines ==
    { <<"1">>, <<"2">>, <<"3">>, <<"4">>, <<" ", "3", " ">>, <<"4", "\t">>,
      <<>>, <<"5">>, <<"q">>, <<"1", " ", "1">> }

MENU_TEXT ==
    << <<Lit("Hardware Health & Inventory Checker")>>,
       <<Lit("1) Run health check (collect + log)")>>,
       <<Lit("2) View recent logs")>>,
       <<Lit("3) Export latest report (txt)")>>,
       <<Lit("4) Quit")>>,
       BlankLine,
       <<Lit("Choose an option: ")>> >>

\* where the loop is after a call that raised, or returned
AfterCall(raised) == IF raised = "none" THEN "menu" ELSE "crashed"

\* input() returns a line whose strip() is c
Chooses(c) ==
    /\ menuPc = "input"
    /\ \E l \in InputLines : strip(l) = c /\ line' = l

\* top of the loop: the five prints, and the prompt of input()
MenuPrint ==
    /\ menuPc = "menu"
    /\ menuPc' = "input"
    /\ console' = MENU_TEXT
    /\ UNCHANGED <<logFile, outFile, call, info, warnings, recent, clock, hist,
                   line, pc, entries>>

MenuRun ==
    /\ Chooses(<<"1">>)
    /\ run_health_check
    /\ menuPc' = AfterCall(call'.raised)
    /\ UNCHANGED <<pc, entries>>

MenuView ==
    /\ Chooses(<<"2">>)
    /\ view_recent_logs(DEFAULT_LIMIT)
    /\ menuPc' = AfterCall(call'.raised)
    /\ UNCHANGED <<pc, entries>>

MenuExport ==
    /\ Chooses(<<"3">>)
    /\ export_latest_report
    /\ menuPc' = AfterCall(call'.raised)
    /\ UNCHANGED <<pc, entries>>

MenuQuit ==
    /\ Chooses(<<"4">>)
    /\ console' = <<BlankLine, <<Lit("Goodbye!")>>, BlankLine>>
    /\ call' = [op |-> "quit", limit |-> 0, raised |-> "none"]
    /\ menuPc' = "exited"
    /\ UNCHANGED <<logFile, outFile, info, warnings, recent, clock, hist, pc, entries>>

MenuInvalid ==
    /\ menuPc = "input"
    /\ \E l \in InputLines :
        /\ strip(l) \notin { <<"1">>, <<"2">>, <<"3">>, <<"4">> }
        /\ line' = l
    /\ console' = <<BlankLine, <<Lit("Invalid option. Try again.")>>, BlankLine>>
    /\ call' = [op |-> "invalid", limit |-> 0, raised |-> "none"]
    /\ menuPc' = "menu"
    /\ UNCHANGED <<logFile, outFile, info, warnings, recent, clock, hist, pc, entries>>

InitMenu == InitWith("menu")

NextMenu ==
    MenuPrint \/ MenuRun \/ MenuView \/ MenuExport \/ MenuQuit \/ MenuInvalid

SpecMenu == InitMenu /\ [][NextMenu]_vars

(***************************************************************************)
(* SpecConc: two processes, each calling append_log once on the same file. *)
(* A process reads the file in one step and writes it in a later one.      *)
(***************************************************************************)
\* entries = read_log(); entries.append(entry)
AppendRead(p) ==
    /\ pc[p] = "idle"
    /\ clock < MaxClock
    /\ clock' = clock + 1
    /\ \E i \in Snapshots(clock + 1) :
        \E r \in {read_log(logFile)} :
        LET entry == [system_info |-> i, warnings |-> health_checks(i)] IN
        IF r.raised # "none"
        THEN /\ pc' = [pc EXCEPT ![p] = "raised"]
             /\ entries' = entries
        ELSE /\ pc' = [pc EXCEPT ![p] = "read"]
             /\ entries' = [entries EXCEPT ![p] = Append(r.value, entry)]
    /\ UNCHANGED <<logFile, outFile, console, call, info, warnings, recent, hist,
                   menuPc, line>>

\* a write that reads the file again and appends to what it holds now
AppendWriteMerged(p) ==
    /\ pc[p] = "read"
    /\ pc' = [pc EXCEPT ![p] = "done"]
    /\ logFile' = write_log(Append(read_log(logFile).value, entries[p][Len(entries[p])]))
    /\ hist' = Append(hist, entries[p][Len(entries[p])])
    /\ UNCHANGED <<outFile, console, call, info, warnings, recent, clock, menuPc,
                   line, entries>>

\* write_log(entries)
AppendWrite(p) ==
    /\ pc[p] = "read"
    /\ pc' = [pc EXCEPT ![p] = "done"]
    /\ logFile' = write_log(entries[p])
    /\ hist' = Append(hist, entries[p][Len(entries[p])])
    /\ UNCHANGED <<outFile, console, call, info, warnings, recent, clock, menuPc,
                   line, entries>>

NextConc == \E p \in Procs : AppendRead(p) \/ AppendWrite(p)

SpecConc == Init /\ [][NextConc]_vars

(***************************************************************************)
(* SpecFunctions: health_checks and format_report applied to arguments     *)
(* drawn from wider sets than the program's own runs produce.              *)
(***************************************************************************)
RamArguments ==
    { [total |-> 1600, available |-> a, percent_used |-> 8750] :
        a \in {0, 199, 200, 201, 210, 1600} }

DiskArguments ==
    { [path_checked |-> "/", total |-> 50000, used |-> 42500, free |-> 7500,
       percent_used |-> d] :
        d \in {0, 8490, 8499, 8500, 8501, 9000, 10000} }

WarningArguments ==
    { <<>>, <<"w1">>, <<"w1", "w2">>, <<"w2", "w1", "w2">>,
      <<DISK_WARNING, RAM_WARNING>> }

InitFunctions ==
    /\ logFile = [kind |-> "missing", text |-> <<>>]
    /\ hist = <<>>
    /\ outFile = [exists |-> FALSE, text |-> <<>>]
    /\ console = <<>>
    /\ call = [op |-> "none", limit |-> 0, raised |-> "none"]
    /\ \E ram \in RamArguments, disk \in DiskArguments :
            info = collect_system_info("T1", ram, disk)
    /\ warnings \in WarningArguments
    /\ recent = <<>>
    /\ clock = 0
    /\ menuPc = "off"
    /\ line = <<>>
    /\ pc = [p \in Procs |-> "idle"]
    /\ entries = [p \in Procs |-> <<>>]

\* warnings = health_checks(info)
CallHealthChecks ==
    /\ warnings' = health_checks(info)
    /\ call' = [op |-> "health_checks", limit |-> 0, raised |-> "none"]
    /\ UNCHANGED <<logFile, outFile, console, info, recent, clock, hist, menuPc,
                   line, pc, entries>>

\* report = format_report(info, warnings)
CallFormatReport ==
    /\ console' = format_report(info, warnings)
    /\ call' = [op |-> "format_report", limit |-> 0, raised |-> "none"]
    /\ UNCHANGED <<logFile, outFile, info, warnings, recent, clock, hist, menuPc,
                   line, pc, entries>>

NextFunctions == CallHealthChecks \/ CallFormatReport

SpecFunctions == InitFunctions /\ [][NextFunctions]_vars

(***************************************************************************)
(* Properties.                                                             *)
(***************************************************************************)
Min(a, b) == IF a < b THEN a ELSE b

\* the last n elements of h (all of h when n > Len(h))
LastN(h, n) == SubSeq(h, Len(h) - Min(n, Len(h)) + 1, Len(h))

Lines(text) == { text[j] : j \in 1..Len(text) }

\* C1: after view_recent_logs(limit=n) has returned on a history of length
\* L, the entries it selected are the last min(n, L) entries of the history,
\* in order (none for n = 0, all for n > L).
TailSelectsLastMin ==
    (call.op = "view" /\ call.raised = "none")
        => recent = LastN(read_log(logFile).value, call.limit)

\* C2: read_log returns the empty list, and raises nothing, when the log
\* file is missing, holds text that is not JSON, or holds JSON that is not
\* an array; when the file holds an array it returns the entries of the
\* array in file order.
ReadLogTolerant ==
    /\ logFile.kind = "missing" => read_log(logFile) = Returned(<<>>)
    /\ (logFile.kind = "text" /\ logFile.text \in InvalidJsonTexts)
            => read_log(logFile) = Returned(<<>>)
    /\ (logFile.kind = "text" /\ logFile.text \in NonArrayTexts)
            => read_log(logFile) = Returned(<<>>)
    /\ (logFile.kind = "text" /\ logFile.text # <<>> /\ logFile.text[1] = LBRACK
        /\ logFile.text \notin InvalidJsonTexts)
            => /\ read_log(logFile).raised = "none"
               /\ Len(read_log(logFile).value) = Len(hist)
               /\ \A j \in 1..Len(hist) :
                    read_log(logFile).value[j].system_info.timestamp
                        = hist[j].system_info.timestamp

\* a call has read a log file that holds JSON that is not an array, and got
\* the empty history
NonArrayLogRead ==
    /\ logFile.kind = "text"
    /\ logFile.text \in NonArrayTexts
    /\ call.op = "export"
    /\ call.raised = "none"
    /\ console = NO_LOGS

\* C3: with one writer, whenever the log file is readable, read_log returns
\* exactly the initial history followed by every entry appended since, each
\* equal in all fields and in append order.
AppendOnlyRoundTrip ==
    logFile.kind \in {"missing", "text"} => read_log(logFile) = Returned(hist)

\* two entries were appended to an initial history of two
AppendedToHistory ==
    /\ Len(hist) = 4
    /\ hist[1] = OlderEntry
    /\ hist[2] = EarlierEntry
    /\ call.op = "run"
    /\ call.raised = "none"
    /\ logFile.kind = "text"

\* C4: health_checks returns the disk warning iff percent_used >= 85.00 and
\* the ram warning iff available <= 2.00 GB, nothing else, the disk warning
\* first.
HealthChecksThresholds ==
    call.op = "health_checks" =>
        LET disk == info.disk_gb.percent_used >= 8500
            ram == info.ram_gb.available <= 200
        IN  warnings =
                IF disk /\ ram THEN <<DISK_WARNING, RAM_WARNING>>
                ELSE IF disk THEN <<DISK_WARNING>>
                ELSE IF ram THEN <<RAM_WARNING>>
                ELSE <<>>

\* health_checks was applied to 85.00 % and 2.00 GB and returned both warnings
BothThresholdsMet ==
    /\ call.op = "health_checks"
    /\ info.disk_gb.percent_used = 8500
    /\ info.ram_gb.available = 200
    /\ warnings = <<DISK_WARNING, RAM_WARNING>>

\* C5: an export_latest_report that returns leaves the export file as it was
\* and prints the no-logs message when the history is empty; otherwise the
\* export file afterwards holds exactly format_report of the last appended
\* entry's snapshot and warnings.
ExportWritesLatest ==
    [][(call'.op = "export" /\ call'.raised = "none") =>
            IF hist = <<>>
            THEN outFile' = outFile /\ console' = NO_LOGS
            ELSE outFile' = [exists |-> TRUE,
                             text |-> format_report(hist[Len(hist)].system_info,
                                                    hist[Len(hist)].warnings)]
      ]_vars

\* an export replaced an earlier export file with the report of the latest
\* of at least three entries
ExportedLatest ==
    /\ call.op = "export"
    /\ call.raised = "none"
    /\ Len(hist) >= 3
    /\ outFile.exists
    /\ outFile.text # StaleReport
    /\ outFile.text[2] = <<Lit("Timestamp: "), StrV(hist[Len(hist)].system_info.timestamp)>>

\* C6: no call ever has an exception of read_log surfaced to it.
ReadLogNeverRaises == call.raised = "none"

\* the lines of text from the one after position h on
After(text, h) == SubSeq(text, h + 1, Len(text))

\* C7: format_report ends in exactly one of two ways: for no warnings, the
\* no-warnings sentence and no Warnings heading; for k > 0 warnings, the
\* Warnings heading followed by exactly k dash-prefixed lines, one per
\* warning in order, and no no-warnings sentence.
FormatReportEndings ==
    call.op = "format_report" =>
        IF warnings = <<>>
        THEN /\ NO_WARNINGS \in Lines(console)
             /\ WARNINGS_HEADING \notin Lines(console)
        ELSE /\ NO_WARNINGS \notin Lines(console)
             /\ \E h \in 1..Len(console) :
                    /\ console[h] = WARNINGS_HEADING
                    /\ After(console, h)
                         = [j \in 1..Len(warnings) |-> <<Lit("- "), StrV(warnings[j])>>]
                    /\ \A j \in 1..h :
                         console[j] = <<>> \/ console[j][1] # Lit("- ")

\* format_report was applied to three warnings
FormattedThreeWarnings ==
    /\ call.op = "format_report"
    /\ Len(warnings) = 3
    /\ Len(console) = 11

\* C8: a run_health_check that completes makes the history one entry longer,
\* the new last entry being the sampled snapshot with health_checks of it,
\* and prints format_report of that snapshot and those warnings.
RunCheckAppendsOnce ==
    [][(call'.op = "run" /\ call'.raised = "none" /\ clock' # clock) =>
            LET ws == health_checks(info') IN
            /\ info' \in Snapshots(clock')
            /\ read_log(logFile').value
                 = Append(read_log(logFile).value,
                          [system_info |-> info', warnings |-> ws])
            /\ SubSeq(console', 2, Len(console') - 3) = format_report(info', ws)
      ]_vars

\* a run completed on a history that held entries
RunCompleted ==
    /\ call.op = "run"
    /\ call.raised = "none"
    /\ Len(hist) >= 2
    /\ hist[Len(hist)] = [system_info |-> info, warnings |-> warnings]
    /\ console[2] = REPORT_HEADER

\* the call the menu makes for an input line
Dispatched(l) ==
    IF strip(l) = <<"1">> THEN "run"
    ELSE IF strip(l) = <<"2">> THEN "view"
    ELSE IF strip(l) = <<"3">> THEN "export"
    ELSE IF strip(l) = <<"4">> THEN "quit"
    ELSE "invalid"

\* C9: each input line is dispatched to exactly one action ("1" run, "2"
\* view, "3" export, "4" quit); any other line writes neither file and
\* returns to the top of the loop; the loop ends only when "4" is chosen.
MenuDispatch ==
    [][menuPc = "input" =>
            /\ call'.op = Dispatched(line')
            /\ Dispatched(line') = "invalid"
                    => (logFile' = logFile /\ outFile' = outFile /\ menuPc' = "menu")
            /\ menuPc' # "menu" => strip(line') = <<"4">>
      ]_vars

\* C10: when two processes run append_log and both read the file before
\* either writes, the file afterwards holds the history with only one of the
\* two entries: the later write discards the other's.
ConcurrentAppendLosesEntry ==
    \A p, q \in Procs :
        (p # q /\ pc[p] = "done" /\ pc[q] = "done"
         /\ Len(entries[p]) = Len(entries[q]))
            => /\ read_log(logFile).value \in {entries[p], entries[q]}
               /\ Len(read_log(logFile).value) = Len(hist) - 1

\* both processes wrote, and the entry of process 2 is gone
LostUpdate ==
    /\ pc[1] = "done"
    /\ pc[2] = "done"
    /\ read_log(logFile).value = entries[1]
    /\ hist[Len(hist)] = entries[1][Len(entries[1])]
    /\ hist[Len(hist) - 1] = entries[2][Len(entries[2])]
    /\ \A j \in 1..Len(entries[1]) : entries[1][j] # entries[2][Len(entries[2])]

=============================================================================
